---- MODULE Spec2Model ----
(***************************************************************************)
(* Bakery backend (src/main.py, src/schemas.py): the product listing with  *)
(* its best-effort seeding, the order and contact submissions, and the     *)
(* document store they share.  One request slot is one HTTP request; a     *)
(* handler advances one storage round trip per step, so that requests      *)
(* served by different worker threads interleave between round trips.      *)
(*                                                                         *)
(* Representation:                                                         *)
(*  - a stored document is a function from field names to values; the      *)
(*    store adds the field "_id";                                          *)
(*  - Optional[T] is a sequence of length 0 (None) or 1;                   *)
(*  - decimal amounts are counted in hundredths (8.5 is 850);              *)
(*  - an email address is the sequence of its characters;                  *)
(*  - a contact message text is represented by its length;                 *)
(*  - a generated identifier string str(id) is the sequence <<id>>.        *)
(***************************************************************************)
EXTENDS Integers, Sequences, FiniteSets, TLC

\* Bounds of the model.
MaxReqs == 2
MaxAdmin == 1
MaxFail == 1

\* Field constraints of src/schemas.py.
LeadTimeMax == 168
QuantityMin == 1
QuantityMax == 50
MessageMin == 5
MessageMax == 2000

Reqs == 1..MaxReqs

None == <<>>
Some(x) == <<x>>

(***************************************************************************)
(* Schema layer                                                            *)
(***************************************************************************)
Flavors == {"Chocolate", "Banana", "Coconut"}

Fields ==
    {"name", "description", "price", "flavor", "vegan", "organic", "image",
     "in_stock", "available_today", "lead_time_hours", "is_special",
     "special_price", "tags"}

Required == {"name", "price", "flavor"}

FieldDefault(f) ==
    CASE f = "description" -> None
      [] f = "vegan" -> TRUE
      [] f = "organic" -> TRUE
      [] f = "image" -> None
      [] f = "in_stock" -> TRUE
      [] f = "available_today" -> TRUE
      [] f = "lead_time_hours" -> 0
      [] f = "is_special" -> FALSE
      [] f = "special_price" -> None
      [] f = "tags" -> <<>>

\* BreadProduct(**d) raises unless this holds.
ValidProduct(d) ==
    /\ Required \subseteq DOMAIN d
    /\ d["price"] >= 0
    /\ d["flavor"] \in Flavors
    /\ "lead_time_hours" \in DOMAIN d =>
          (d["lead_time_hours"] >= 0 /\ d["lead_time_hours"] <= LeadTimeMax)
    /\ "special_price" \in DOMAIN d =>
          \A i \in 1..Len(d["special_price"]) : d["special_price"][i] >= 0

\* Faulty variant: the optional fields are reset to their defaults.
CoerceDefaultsOnly(d) ==
    [f \in Fields |-> IF f \in Required THEN d[f] ELSE FieldDefault(f)]

\* The model BreadProduct(**d) builds: declared fields only, defaults filled in.
Coerce(d) ==
    [f \in Fields |-> IF f \in DOMAIN d THEN d[f] ELSE FieldDefault(f)]

\* d.pop("_id", None)
PopId(d) == [f \in DOMAIN d \ {"_id"} |-> d[f]]

\* EmailStr: one "@", a non-empty local part, a domain with an inner period.
AtPositions(e) == {i \in 1..Len(e) : e[i] = "@"}

WellFormedEmail(e) ==
    /\ Cardinality(AtPositions(e)) = 1
    /\ LET at == CHOOSE i \in AtPositions(e) : TRUE
       IN  /\ at > 1
           /\ \E j \in (at + 2)..(Len(e) - 1) : e[j] = "."
           /\ e[Len(e)] # "."
           /\ e[at + 1] # "."

\* Faulty variant: the upper bound of quantity off by one.
ValidOrderOffByOne(p) ==
    /\ WellFormedEmail(p.email)
    /\ p.quantity >= QuantityMin
    /\ p.quantity <= QuantityMax + 1
    /\ p.fulfillment_method \in {"pickup", "delivery"}
    /\ p.notify_via \in {"email", "whatsapp"}

ValidOrder(p) ==
    /\ WellFormedEmail(p.email)
    /\ p.quantity >= QuantityMin
    /\ p.quantity <= QuantityMax
    /\ p.fulfillment_method \in {"pickup", "delivery"}
    /\ p.notify_via \in {"email", "whatsapp"}

ValidContact(m) ==
    /\ WellFormedEmail(m.email)
    /\ m.message >= MessageMin
    /\ m.message <= MessageMax

(***************************************************************************)
(* Default products of the seeding routine                                 *)
(***************************************************************************)
Default1 ==
    [name |-> "Chocolate Sweet Bread",
     description |-> Some("Rich, moist vegan loaf made with organic cacao and coconut sugar."),
     price |-> 850, flavor |-> "Chocolate", vegan |-> TRUE, organic |-> TRUE,
     image |-> Some("https://images.unsplash.com/photo-1541781286675-09d03b606ffa"),
     in_stock |-> TRUE, available_today |-> TRUE, lead_time_hours |-> 0,
     is_special |-> FALSE, special_price |-> None,
     tags |-> <<"Customer Favorite">>]

Default2 ==
    [name |-> "Banana Island Loaf",
     description |-> Some("Naturally sweet, ultra-soft banana bread with a hint of spice."),
     price |-> 750, flavor |-> "Banana", vegan |-> TRUE, organic |-> TRUE,
     image |-> Some("https://images.unsplash.com/photo-1517686469429-8bdb88b9f907"),
     in_stock |-> TRUE, available_today |-> FALSE, lead_time_hours |-> 24,
     is_special |-> TRUE, special_price |-> Some(675),
     tags |-> <<"Weekend Special", "Ripe Bananas">>]

Default3 ==
    [name |-> "Coconut Sunshine Loaf",
     description |-> Some("Toasted coconut flakes and creamy coconut milk for a tropical treat."),
     price |-> 800, flavor |-> "Coconut", vegan |-> TRUE, organic |-> TRUE,
     image |-> Some("https://images.unsplash.com/photo-1548160-9c8b-4b57-9c1f-035e3e7d5b1e"),
     in_stock |-> TRUE, available_today |-> TRUE, lead_time_hours |-> 0,
     is_special |-> FALSE, special_price |-> None,
     tags |-> <<"Toasted Coconut">>]

defaults == <<Default1, Default2, Default3>>

\* Faulty variants of the decision: seed on every call; seed a collection of one;
\* seed whenever the three defaults are not all there.
SeedDecisionAlways(count) == TRUE

SeedDecisionAtMostOne(count) == count <= 1

SeedDecisionIncomplete(count) == count < 3

\* if count == 0:
SeedDecision(count) == count = 0

(***************************************************************************)
(* Storage gateway (database module)                                       *)
(***************************************************************************)
StorageError == "storage error"

InsertOne(coll, doc, id) == Append(coll, doc @@ ("_id" :> id))

FetchAll(coll) == coll

CountDocuments(coll) == Len(coll)

IdString(id) == <<id>>

(***************************************************************************)
(* Inputs                                                                  *)
(***************************************************************************)
GoodEmail == <<"a", "@", "b", ".", "c">>
NoAtEmail == <<"a", "b", ".", "c">>
NoDotEmail == <<"a", "@", "b">>

OrderBase ==
    [customer_name |-> "Ana", email |-> GoodEmail, phone |-> None,
     product_name |-> "Banana Island Loaf", quantity |-> 1, notes |-> None,
     fulfillment_method |-> "pickup", pickup_time |-> None,
     delivery_time |-> None, delivery_address |-> None,
     notify_via |-> "email", whatsapp |-> None]

OrderPayloads ==
    {OrderBase,
     [OrderBase EXCEPT !.quantity = 50, !.notify_via = "whatsapp",
                       !.fulfillment_method = "delivery"],
     [OrderBase EXCEPT !.quantity = 0],
     [OrderBase EXCEPT !.quantity = 51, !.notify_via = "whatsapp"],
     [OrderBase EXCEPT !.email = NoAtEmail],
     [OrderBase EXCEPT !.email = NoDotEmail, !.quantity = 50]}

ContactPayloads ==
    {[name |-> "Ana", email |-> GoodEmail, message |-> n] : n \in {4, 5, 2000, 2001}}
        \cup {[name |-> "Ana", email |-> NoAtEmail, message |-> 5]}

AdminFull ==
    [name |-> "Cocoa Roll", description |-> Some("Small batch."),
     price |-> 0, flavor |-> "Chocolate", vegan |-> FALSE, organic |-> FALSE,
     image |-> None, in_stock |-> FALSE, available_today |-> FALSE,
     lead_time_hours |-> 168, is_special |-> TRUE, special_price |-> Some(0),
     tags |-> <<"Limited", "Gluten-free">>]

AdminMinimal == [name |-> "Plain Loaf", price |-> 500, flavor |-> "Banana"]

AdminDocs ==
    {AdminFull,
     AdminMinimal,
     [AdminFull EXCEPT !.flavor = "Vanilla"],
     [AdminFull EXCEPT !.price = -1],
     [AdminFull EXCEPT !.lead_time_hours = 169]}

(***************************************************************************)
(* State                                                                   *)
(***************************************************************************)
VARIABLES
    dbNone,          \* database.db is None (no database configured)
    breadproduct,    \* collection "breadproduct"
    order,           \* collection "order"
    contactmessage,  \* collection "contactmessage"
    nextId,          \* next identifier the store generates
    adminCount,      \* documents written to "breadproduct" from outside
    failures,        \* storage calls that have failed while a database is configured
    pc,              \* per request: position in its handler
    kind,            \* per request: the endpoint
    payload,         \* per request: the request body
    count,           \* per request: Some(count_documents result)
    idx,             \* per request: index of the next default to insert
    docs,            \* per request: Some(result of get_documents)
    calls,           \* per request: storage calls issued, <<op, collection, ok>>
    response         \* per request: the HTTP response

vars ==
    <<dbNone, breadproduct, order, contactmessage, nextId, adminCount,
      failures, pc,
      kind, payload, count, idx, docs, calls, response>>

NoPayload == [empty |-> TRUE]
NoResponse == [code |-> 0]

\* Storage calls fail whenever no database is configured, and may fail otherwise
\* (at most MaxFail times per run).
Outcomes ==
    IF dbNone THEN {FALSE}
    ELSE IF failures < MaxFail THEN BOOLEAN ELSE {TRUE}

Failed(ok) == IF ok \/ dbNone THEN failures ELSE failures + 1

Init ==
    /\ dbNone \in BOOLEAN
    /\ breadproduct = <<>>
    /\ order = <<>>
    /\ contactmessage = <<>>
    /\ nextId = 1
    /\ adminCount = 0
    /\ failures = 0
    /\ pc = [r \in Reqs |-> "idle"]
    /\ kind = [r \in Reqs |-> "none"]
    /\ payload = [r \in Reqs |-> NoPayload]
    /\ count = [r \in Reqs |-> None]
    /\ idx = [r \in Reqs |-> 0]
    /\ docs = [r \in Reqs |-> None]
    /\ calls = [r \in Reqs |-> <<>>]
    /\ response = [r \in Reqs |-> NoResponse]

\* Requests are numbered in their order of arrival.
Arrives(r) == pc[r] = "idle" /\ (IF r = 1 THEN TRUE ELSE pc[r - 1] # "idle")

Quiet == \A q \in Reqs : pc[q] \in {"idle", "done"}

Logged(r, op, coll, ok) == [calls EXCEPT ![r] = Append(@, <<op, coll, ok>>)]

(***************************************************************************)
(* GET /api/products                                                       *)
(***************************************************************************)
ListStart(r) ==
    /\ Arrives(r)
    /\ pc' = [pc EXCEPT ![r] = "seed"]
    /\ kind' = [kind EXCEPT ![r] = "list_products"]
    /\ UNCHANGED <<dbNone, breadproduct, order, contactmessage, nextId,
                   adminCount, failures, payload, count, idx, docs, calls,
                   response>>

\* Faulty variant: the exception of the seeding routine reaches the client.
OnSeedExceptionRaise(r) ==
    [pc |-> "done", response |-> [code |-> 500, detail |-> "storage error"]]

\* "except Exception: pass": the routine returns normally, the caller goes on.
OnSeedException(r) == [pc |-> "fetch", response |-> response[r]]

\* _seed_products_if_empty up to the decision on the count.
SeedCheck(r, ok) ==
    /\ failures' = Failed(ok)
    /\ pc[r] = "seed"
    /\ IF dbNone
       THEN /\ pc' = [pc EXCEPT ![r] = "fetch"]
            /\ UNCHANGED <<count, idx, calls, response>>
       ELSE IF ~ok
       THEN /\ calls' = Logged(r, "count", "breadproduct", FALSE)
            /\ pc' = [pc EXCEPT ![r] = OnSeedException(r).pc]
            /\ response' = [response EXCEPT ![r] = OnSeedException(r).response]
            /\ UNCHANGED <<count, idx>>
       ELSE /\ calls' = Logged(r, "count", "breadproduct", TRUE)
            /\ count' = [count EXCEPT ![r] = Some(CountDocuments(breadproduct))]
            /\ IF SeedDecision(CountDocuments(breadproduct))
               THEN /\ pc' = [pc EXCEPT ![r] = "seed_insert"]
                    /\ idx' = [idx EXCEPT ![r] = 1]
               ELSE /\ pc' = [pc EXCEPT ![r] = "fetch"]
                    /\ UNCHANGED idx
            /\ UNCHANGED response
    /\ UNCHANGED <<dbNone, breadproduct, order, contactmessage, nextId,
                   adminCount, kind, payload, docs>>

\* Faulty variant: seeding under a lock that one request holds at a time.
SeedInsertLocked(r, ok) ==
    /\ \A q \in Reqs \ {r} : pc[q] # "seed_insert"
    /\ failures' = Failed(ok)
    /\ pc[r] = "seed_insert"
    /\ calls' = Logged(r, "insert", "breadproduct", ok)
    /\ IF ok
       THEN /\ breadproduct' = Append(breadproduct, defaults[idx[r]] @@ ("_id" :> nextId))
            /\ nextId' = nextId + 1
            /\ idx' = [idx EXCEPT ![r] = @ + 1]
            /\ pc' = [pc EXCEPT ![r] =
                        IF idx[r] = Len(defaults) THEN "fetch" ELSE "seed_insert"]
            /\ UNCHANGED response
       ELSE /\ pc' = [pc EXCEPT ![r] = OnSeedException(r).pc]
            /\ response' = [response EXCEPT ![r] = OnSeedException(r).response]
            /\ UNCHANGED <<breadproduct, nextId, idx>>
    /\ UNCHANGED <<dbNone, order, contactmessage, adminCount, kind, payload,
                   count, docs>>

\* One iteration of "for d in defaults: create_document(...)".
SeedInsert(r, ok) ==
    /\ failures' = Failed(ok)
    /\ pc[r] = "seed_insert"
    /\ calls' = Logged(r, "insert", "breadproduct", ok)
    /\ IF ok
       THEN /\ breadproduct' = InsertOne(breadproduct, defaults[idx[r]], nextId)
            /\ nextId' = nextId + 1
            /\ idx' = [idx EXCEPT ![r] = @ + 1]
            /\ pc' = [pc EXCEPT ![r] =
                        IF idx[r] = Len(defaults) THEN "fetch" ELSE "seed_insert"]
            /\ UNCHANGED response
       ELSE /\ pc' = [pc EXCEPT ![r] = OnSeedException(r).pc]
            /\ response' = [response EXCEPT ![r] = OnSeedException(r).response]
            /\ UNCHANGED <<breadproduct, nextId, idx>>
    /\ UNCHANGED <<dbNone, order, contactmessage, adminCount, kind, payload,
                   count, docs>>

\* Faulty variant: documents that fail to coerce are skipped.
ListResponsePartial(ok, fetched) ==
    IF ~ok
    THEN [code |-> 500, detail |-> "storage error"]
    ELSE LET good == SelectSeq(fetched, LAMBDA d : ValidProduct(PopId(d)))
         IN  [code |-> 200,
              body |-> [i \in 1..Len(good) |-> Coerce(PopId(good[i]))]]

\* The body of list_products after the fetch: the response it produces.
ListResponse(ok, fetched) ==
    IF ~ok
    THEN [code |-> 500, detail |-> StorageError]
    ELSE IF \E i \in 1..Len(fetched) : ~ValidProduct(PopId(fetched[i]))
    THEN [code |-> 500, detail |-> "validation error"]
    ELSE [code |-> 200,
          body |-> [i \in 1..Len(fetched) |-> Coerce(PopId(fetched[i]))]]

Fetch(r, ok) ==
    /\ failures' = Failed(ok)
    /\ pc[r] = "fetch"
    /\ calls' = Logged(r, "find", "breadproduct", ok)
    /\ docs' = [docs EXCEPT ![r] = IF ok THEN Some(FetchAll(breadproduct)) ELSE None]
    /\ response' = [response EXCEPT ![r] = ListResponse(ok, FetchAll(breadproduct))]
    /\ pc' = [pc EXCEPT ![r] = "done"]
    /\ UNCHANGED <<dbNone, breadproduct, order, contactmessage, nextId,
                   adminCount, kind, payload, count, idx>>

(***************************************************************************)
(* POST /api/orders                                                        *)
(***************************************************************************)
\* The body is validated against Order before create_order runs.
OrderStart(r, p) ==
    /\ Arrives(r)
    /\ kind' = [kind EXCEPT ![r] = "create_order"]
    /\ payload' = [payload EXCEPT ![r] = p]
    /\ IF ValidOrder(p)
       THEN /\ pc' = [pc EXCEPT ![r] = "order_insert"]
            /\ UNCHANGED response
       ELSE /\ pc' = [pc EXCEPT ![r] = "done"]
            /\ response' = [response EXCEPT ![r] = [code |-> 422]]
    /\ UNCHANGED <<dbNone, breadproduct, order, contactmessage, nextId,
                   adminCount, failures, count, idx, docs, calls>>

\* Faulty variant: the notification channel is always email.
OrderResponseEmailOnly(p, id) ==
    [code |-> 200,
     body |-> [status |-> "ok", order_id |-> <<id>>,
               notification |-> [channel |-> "email", status |-> "queued"]]]

OrderResponse(p, id) ==
    [code |-> 200,
     body |-> [status |-> "ok", order_id |-> IdString(id),
               notification |-> [channel |-> p.notify_via, status |-> "queued"]]]

\* Faulty variant: a failed insert is tried again.
OrderInsertRetry(r, ok) ==
    /\ failures' = Failed(ok)
    /\ pc[r] = "order_insert"
    /\ calls' = Logged(r, "insert", "order", ok)
    /\ IF ok
       THEN /\ order' = Append(order, payload[r] @@ ("_id" :> nextId))
            /\ nextId' = nextId + 1
            /\ response' = [response EXCEPT ![r] =
                   [code |-> 200,
                    body |-> [status |-> "ok", order_id |-> <<nextId>>,
                              notification |-> [channel |-> payload[r].notify_via,
                                                status |-> "queued"]]]]
            /\ pc' = [pc EXCEPT ![r] = "done"]
       ELSE /\ UNCHANGED <<order, nextId, response, pc>>
    /\ UNCHANGED <<dbNone, breadproduct, contactmessage, adminCount, kind,
                   payload, count, idx, docs>>

OrderInsert(r, ok) ==
    /\ failures' = Failed(ok)
    /\ pc[r] = "order_insert"
    /\ calls' = Logged(r, "insert", "order", ok)
    /\ IF ok
       THEN /\ order' = InsertOne(order, payload[r], nextId)
            /\ nextId' = nextId + 1
            /\ response' = [response EXCEPT ![r] = OrderResponse(payload[r], nextId)]
       ELSE /\ response' = [response EXCEPT ![r] =
                               [code |-> 500, detail |-> StorageError]]
            /\ UNCHANGED <<order, nextId>>
    /\ pc' = [pc EXCEPT ![r] = "done"]
    /\ UNCHANGED <<dbNone, breadproduct, contactmessage, adminCount, kind,
                   payload, count, idx, docs>>

(***************************************************************************)
(* POST /api/contact                                                       *)
(***************************************************************************)
ContactStart(r, m) ==
    /\ Arrives(r)
    /\ kind' = [kind EXCEPT ![r] = "contact"]
    /\ payload' = [payload EXCEPT ![r] = m]
    /\ IF ValidContact(m)
       THEN /\ pc' = [pc EXCEPT ![r] = "contact_insert"]
            /\ UNCHANGED response
       ELSE /\ pc' = [pc EXCEPT ![r] = "done"]
            /\ response' = [response EXCEPT ![r] = [code |-> 422]]
    /\ UNCHANGED <<dbNone, breadproduct, order, contactmessage, nextId,
                   adminCount, failures, count, idx, docs, calls>>

ContactResponse(id) ==
    [code |-> 200, body |-> [status |-> "ok", message_id |-> IdString(id)]]

ContactInsert(r, ok) ==
    /\ failures' = Failed(ok)
    /\ pc[r] = "contact_insert"
    /\ calls' = Logged(r, "insert", "contactmessage", ok)
    /\ IF ok
       THEN /\ contactmessage' = InsertOne(contactmessage, payload[r], nextId)
            /\ nextId' = nextId + 1
            /\ response' = [response EXCEPT ![r] = ContactResponse(nextId)]
       ELSE /\ response' = [response EXCEPT ![r] =
                               [code |-> 500, detail |-> StorageError]]
            /\ UNCHANGED <<contactmessage, nextId>>
    /\ pc' = [pc EXCEPT ![r] = "done"]
    /\ UNCHANGED <<dbNone, breadproduct, order, adminCount, kind, payload,
                   count, idx, docs>>

(***************************************************************************)
(* Direct administrative insertion into the product collection             *)
(***************************************************************************)
AdminInsert(d) ==
    /\ ~dbNone
    /\ adminCount < MaxAdmin
    /\ breadproduct' = InsertOne(breadproduct, d, nextId)
    /\ nextId' = nextId + 1
    /\ adminCount' = adminCount + 1
    /\ UNCHANGED <<dbNone, order, contactmessage, failures, pc, kind, payload,
                   count, idx, docs, calls, response>>

(***************************************************************************)
(* Specifications                                                          *)
(***************************************************************************)
ListStep(r) ==
    \/ \E ok \in Outcomes : SeedCheck(r, ok)
    \/ \E ok \in Outcomes : SeedInsert(r, ok)
    \/ \E ok \in Outcomes : Fetch(r, ok)

SubmitStep(r) ==
    \/ \E ok \in Outcomes : OrderInsert(r, ok)
    \/ \E ok \in Outcomes : ContactInsert(r, ok)

Submit(r) ==
    \/ \E p \in OrderPayloads : OrderStart(r, p)
    \/ \E m \in ContactPayloads : ContactStart(r, m)

\* Catalog reads served concurrently; only the service writes.
Next ==
    \/ \E r \in Reqs : ListStart(r)
    \/ \E r \in Reqs : ListStep(r)

Spec == Init /\ [][Next]_vars

\* Catalog reads served one at a time, with outside writes to the product
\* collection at any moment.
NextAdmin ==
    \/ \E r \in Reqs : Quiet /\ ListStart(r)
    \/ \E r \in Reqs : ListStep(r)
    \/ \E d \in AdminDocs : AdminInsert(d)

SpecAdmin == Init /\ [][NextAdmin]_vars

\* Order and contact submissions served concurrently.
NextSubmit ==
    \/ \E r \in Reqs : Submit(r)
    \/ \E r \in Reqs : SubmitStep(r)

SpecSubmit == Init /\ [][NextSubmit]_vars

\* Requests of every kind served one at a time; only the service writes.
NextSeq ==
    \/ \E r \in Reqs : Quiet /\ (ListStart(r) \/ Submit(r))
    \/ \E r \in Reqs : ListStep(r) \/ SubmitStep(r)

SpecSeq == Init /\ [][NextSeq]_vars

(***************************************************************************)
(* Properties                                                              *)
(***************************************************************************)
Done(r) == pc[r] = "done"

IsList(r) == kind[r] = "list_products"

InsertCalls(r) == {i \in DOMAIN calls[r] : calls[r][i][1] = "insert"}

LastCall(r) == calls[r][Len(calls[r])]

SeedingFailed(r) ==
    \E i \in DOMAIN calls[r] :
        calls[r][i][1] \in {"count", "insert"} /\ ~calls[r][i][3]

\* C1: with one request at a time, a database and no storage failure, every
\* completed list_products call (the first and each later one) answers 200
\* with exactly Chocolate Sweet Bread, Banana Island Loaf, Coconut Sunshine
\* Loaf in that order, and the collection holds exactly three documents.
C1_SeededExactlyOnce ==
    \A r \in Reqs :
        (IsList(r) /\ Done(r) /\ ~dbNone /\ failures = 0) =>
            /\ response[r] = [code |-> 200, body |-> <<Default1, Default2, Default3>>]
            /\ Len(breadproduct) = 3
            /\ \A i \in 1..3 : breadproduct[i]["name"] = defaults[i]["name"]

C1_Witness ==
    /\ ~dbNone /\ failures = 0
    /\ \E r1, r2 \in Reqs :
        /\ r1 < r2
        /\ IsList(r1) /\ Done(r1) /\ IsList(r2) /\ Done(r2)
        /\ Cardinality(InsertCalls(r1)) = 3
        /\ InsertCalls(r2) = {}
        /\ response[r1].code = 200
        /\ response[r2] = response[r1]
        /\ Len(response[r2].body) = 3
    /\ Len(breadproduct) = 3

\* What a seeding run has done, by the count it observed.
C2_State ==
    \A r \in Reqs :
        /\ InsertCalls(r) # {} => count[r] = Some(0)
        /\ (count[r] = Some(0) /\ pc[r] \in {"fetch", "done"}) => InsertCalls(r) # {}
        /\ (count[r] # None /\ count[r] # Some(0)) =>
              /\ InsertCalls(r) = {}
              /\ calls[r][1] = <<"count", "breadproduct", TRUE>>
              /\ pc[r] \in {"fetch", "done"}

C2_Step ==
    \A r \in Reqs :
        (count[r] # None /\ count[r] # Some(0) /\ pc'[r] # pc[r]) =>
            breadproduct' = breadproduct

\* C2: a run of _seed_products_if_empty issues inserts if and only if the
\* count it observed is exactly zero; a run that observed a non-zero count
\* has issued the count call and no insert, and none of its steps changes
\* the product collection, whatever documents the collection holds.
C2_SeedsIffCountZero == [](C2_State) /\ [][C2_Step]_vars

C2_Witness ==
    \E r \in Reqs :
        /\ Done(r) /\ count[r] = Some(1)
        /\ Len(calls[r]) = 2
        /\ Len(breadproduct) = 1
        /\ breadproduct[1]["flavor"] = "Vanilla"

\* Malformed addresses among the inputs.
BadEmails == {NoAtEmail, NoDotEmail}

\* C3: an Order with quantity below 1 or above 50 or a malformed email, and
\* a ContactMessage whose message is shorter than 5 or longer than 2000, is
\* rejected (422) with no storage call issued, and no such document is ever
\* in the order or contact collection.
C3_InvalidNeverStored ==
    /\ \A r \in Reqs :
          (kind[r] = "create_order" /\
           (payload[r].quantity < 1 \/ payload[r].quantity > 50
              \/ payload[r].email \in BadEmails)) =>
             (Done(r) /\ calls[r] = <<>> /\ response[r] = [code |-> 422])
    /\ \A r \in Reqs :
          (kind[r] = "contact" /\
           (payload[r].message < 5 \/ payload[r].message > 2000)) =>
             (Done(r) /\ calls[r] = <<>> /\ response[r] = [code |-> 422])
    /\ \A i \in DOMAIN order :
          /\ order[i]["quantity"] \in 1..50
          /\ order[i]["email"] \notin BadEmails
    /\ \A i \in DOMAIN contactmessage : contactmessage[i]["message"] \in 5..2000
    /\ Len(order) + Len(contactmessage) =
          Cardinality({r \in Reqs : calls[r] # <<>> /\ calls[r][1][3]})

C3_Witness ==
    \E r1, r2 \in Reqs :
        /\ kind[r1] = "create_order" /\ payload[r1].quantity = 51 /\ Done(r1)
        /\ kind[r2] = "contact" /\ payload[r2].message = 4 /\ Done(r2)
        /\ order = <<>> /\ contactmessage = <<>>

\* C4: when the count check or an insert of the seeding routine has failed,
\* the routine has returned normally (the request is at the fetch or past
\* it), the fetch is the last storage call of the completed request, and
\* the response is the one the fetch gives: 500 when it failed, else 200
\* with one product per fetched document (possibly none).
C4_SeedingFailureSwallowed ==
    \A r \in Reqs :
        (IsList(r) /\ SeedingFailed(r)) =>
            /\ pc[r] \in {"fetch", "done"}
            /\ Done(r) =>
                  /\ LastCall(r)[1] = "find"
                  /\ IF LastCall(r)[3]
                     THEN /\ response[r].code = 200
                          /\ Len(response[r].body) = Len(docs[r][1])
                     ELSE response[r] = [code |-> 500, detail |-> StorageError]

C4_Witness ==
    \E r \in Reqs :
        /\ IsList(r) /\ Done(r)
        /\ calls[r] = << <<"count", "breadproduct", FALSE>>,
                         <<"find", "breadproduct", TRUE>> >>
        /\ response[r] = [code |-> 200, body |-> <<>>]

\* A seeding run past the count is never held back.
C5_Enabled ==
    \A r \in Reqs :
        (pc[r] = "seed_insert" /\ ~dbNone) =>
            /\ count[r] = Some(0)
            /\ ENABLED SeedInsert(r, TRUE)

C5_Step ==
    \A r \in Reqs :
        (pc[r] = "seed_insert" /\ Len(calls'[r]) > Len(calls[r])
            /\ calls'[r][Len(calls'[r])][3]) =>
           /\ Len(breadproduct') = Len(breadproduct) + 1
           /\ PopId(breadproduct'[Len(breadproduct')]) = defaults[idx[r]]

\* C5: nothing excludes the race of two first catalog reads: a request that
\* has observed count zero can always go on to insert its next default,
\* whatever the collection holds by then and wherever the other requests
\* are, and a successful insert appends that default to the collection.
C5_NoExclusionOfSeedingRace == [](C5_Enabled) /\ [][C5_Step]_vars

C5_Witness ==
    /\ \A r \in {1, 2} : count[r] = Some(0) /\ Cardinality(InsertCalls(r)) = 3 /\ Done(r)
    /\ Len(breadproduct) = 6
    /\ Cardinality({breadproduct[i]["name"] : i \in DOMAIN breadproduct}) = 3

\* A stored document that violates a BreadProduct constraint.
BadProduct(d) ==
    \/ d["flavor"] \notin {"Chocolate", "Banana", "Coconut"}
    \/ d["price"] < 0
    \/ ("lead_time_hours" \in DOMAIN d /\ d["lead_time_hours"] \notin 0..168)

\* C6: a completed list_products call whose fetch failed, or whose fetched
\* documents include one with a flavor outside Chocolate/Banana/Coconut, a
\* negative price or a lead time outside 0..168, answers 500 and carries no
\* list at all; it answers 200 only with one product per fetched document.
C6_AllOrNothing ==
    \A r \in Reqs :
        (IsList(r) /\ Done(r)) =>
            /\ ~LastCall(r)[3] => response[r] = [code |-> 500, detail |-> StorageError]
            /\ (LastCall(r)[3] /\ \E i \in DOMAIN docs[r][1] : BadProduct(docs[r][1][i])) =>
                  /\ response[r].code = 500
                  /\ "body" \notin DOMAIN response[r]
            /\ response[r].code = 200 =>
                  Len(response[r].body) = Len(docs[r][1])

C6_Witness ==
    \E r \in Reqs :
        /\ IsList(r) /\ Done(r) /\ LastCall(r)[3]
        /\ Len(docs[r][1]) = 4
        /\ \A i \in 1..3 : ~BadProduct(docs[r][1][i])
        /\ docs[r][1][4]["price"] < 0
        /\ response[r].code = 500

\* Acceptance of a valid order, and the effect of its successful insert.
C7_Accepted ==
    \A r \in Reqs :
        (kind[r] = "create_order" /\ payload[r].quantity \in 1..50
            /\ payload[r].email = GoodEmail) =>
           /\ pc[r] = "order_insert" \/ calls[r] # <<>>
           /\ (Done(r) /\ calls[r][1][3]) =>
                 /\ response[r].code = 200
                 /\ Cardinality({i \in DOMAIN order :
                        IdString(order[i]["_id"]) = response[r].body.order_id}) = 1

C7_Step ==
    \A r \in Reqs :
        (pc[r] = "order_insert" /\ Done(r)' /\ calls'[r][1][3]) =>
           /\ Len(order') = Len(order) + 1
           /\ SubSeq(order', 1, Len(order)) = order
           /\ PopId(order'[Len(order')]) = payload[r]
           /\ breadproduct' = breadproduct
           /\ contactmessage' = contactmessage
           /\ response'[r].code = 200
           /\ response'[r].body.status = "ok"
           /\ Len(response'[r].body.order_id) > 0
           /\ response'[r].body.notification =
                 [channel |-> payload[r].notify_via, status |-> "queued"]

\* C7: a valid Order (quantity in 1..50, well-formed email) is accepted, and
\* the step of create_order whose insert succeeds adds exactly one document,
\* the payload, to the order collection, leaves the product and contact
\* collections unchanged, and answers status "ok" with a non-empty order_id
\* and the notification {channel: notify_via of the payload, status: queued}.
C7_ValidOrderStoredOnce == [](C7_Accepted) /\ [][C7_Step]_vars

C7_Witness ==
    \E r \in Reqs :
        /\ kind[r] = "create_order" /\ Done(r)
        /\ payload[r].notify_via = "whatsapp" /\ payload[r].quantity = 50
        /\ response[r].code = 200
        /\ response[r].body.notification.channel = "whatsapp"
        /\ Len(order) = 1

\* C8: when the insert of create_order or contact failed, that insert is the
\* only storage call the request made, the request is complete, and its
\* response is 500 with the error text and no order_id or message_id.
C8_SingleAttempt ==
    \A r \in Reqs :
        (kind[r] \in {"create_order", "contact"} /\ calls[r] # <<>>
            /\ ~calls[r][1][3]) =>
           /\ Len(calls[r]) = 1
           /\ Done(r)
           /\ response[r] = [code |-> 500, detail |-> StorageError]
           /\ "body" \notin DOMAIN response[r]

C8_Witness ==
    \E r1, r2 \in Reqs :
        /\ kind[r1] = "create_order" /\ Done(r1) /\ response[r1].code = 500
        /\ kind[r2] = "contact" /\ Done(r2)
        /\ calls[r1] = << <<"insert", "order", FALSE>> >>
        /\ order = <<>>

\* C9: a 200 answer of list_products holds one product per fetched document,
\* in the order of the fetch; a fetched document with every BreadProduct
\* field set comes back with every field value unchanged and without "_id";
\* and a call that counted a non-empty collection has inserted no default.
C9_RoundTrip ==
    \A r \in Reqs :
        (IsList(r) /\ Done(r) /\ response[r].code = 200) =>
            /\ Len(response[r].body) = Len(docs[r][1])
            /\ \A i \in DOMAIN docs[r][1] :
                  /\ DOMAIN response[r].body[i] = Fields
                  /\ "_id" \in DOMAIN docs[r][1][i]
                  /\ DOMAIN docs[r][1][i] = Fields \cup {"_id"} =>
                        \A f \in Fields : response[r].body[i][f] = docs[r][1][i][f]
            /\ (count[r] # None /\ count[r] # Some(0)) => InsertCalls(r) = {}

C9_Witness ==
    \E r \in Reqs :
        /\ IsList(r) /\ Done(r)
        /\ response[r] = [code |-> 200, body |-> <<AdminFull>>]
        /\ count[r] = Some(1)
        /\ breadproduct = <<AdminFull @@ ("_id" :> 1)>>

\* The catalog as a prefix of the defaults; a catalog left incomplete.
IsDefaultPrefix ==
    /\ Len(breadproduct) <= 3
    /\ \A i \in DOMAIN breadproduct : PopId(breadproduct[i]) = defaults[i]

Incomplete ==
    /\ Len(breadproduct) \in {1, 2}
    /\ \A r \in Reqs : pc[r] # "seed_insert"

\* C10: with one request at a time and only the service writing, the product
\* collection is always a prefix (0 to 3 documents) of the default sequence;
\* and once it holds one or two defaults with no seeding run under way, it
\* never changes again and no later call starts inserting.
C10_PrefixOfDefaults ==
    [](IsDefaultPrefix) /\ [][Incomplete => (Incomplete' /\ breadproduct' = breadproduct)]_vars

C10_Witness ==
    \E r1, r2 \in Reqs :
        /\ r1 < r2
        /\ IsList(r1) /\ Done(r1) /\ SeedingFailed(r1)
        /\ IsList(r2) /\ Done(r2) /\ count[r2] = Some(2) /\ InsertCalls(r2) = {}
        /\ response[r2] = [code |-> 200, body |-> <<Default1, Default2>>]
        /\ Len(breadproduct) = 2

====
